---------------------------- MODULE Spec2Model ----------------------------
(***************************************************************************)
(* A model of krita_garyc_bridge.py: the base-36 coordinate codec          *)
(* (generate_base36), the importer data_to_svg, the exporter svg_to_data   *)
(* with its path interpreter compile_path, and the point reducer optimize. *)
(*                                                                         *)
(* Text is modelled as a sequence of one-character strings, so that        *)
(* formatting, splitting and regular-expression scanning are computed and  *)
(* not assumed.  A Python float is a record [v, int |-> FALSE], a Python   *)
(* int is [v, int |-> TRUE]; only integral values occur.  A Python list    *)
(* holding a point is an object of a heap, so that two names for one list  *)
(* are one object.                                                         *)
(*                                                                         *)
(* Not modelled: CubicTo (1001 float samples of a Bernstein polynomial)    *)
(* and compile_ellipse (cos, sin); no input drawn here uses them.  The     *)
(* threshold test of optimize (atan2, sqrt, dist on floats) is a           *)
(* nondeterministic outcome, except where its value is certainly 0.        *)
(***************************************************************************)
EXTENDS Integers, Sequences, FiniteSets, TLC

VARIABLES
    \* generate_base36
    gen_pc, gen_i, gen_j, encoder, decoder,
    \* data_to_svg / svg_to_data
    pc, origin, data, svg, err, result,
    objs, cp, new_lines, lines, cur, flattened_line, previous_point,
    \* optimize
    opt_pc, opt_data, todo, points, start, end, new_line, new_data,
    opt_result, tests, opt_err

codecVars == <<gen_pc, gen_i, gen_j, encoder, decoder>>
bridgeVars == <<pc, origin, data, svg, err, result, objs, cp, new_lines, lines, cur,
                flattened_line, previous_point>>
optVars == <<opt_pc, opt_data, todo, points, start, end, new_line, new_data,
             opt_result, tests, opt_err>>
vars == <<codecVars, bridgeVars, optVars>>

----------------------------------------------------------------------------
(* Characters and text *)

DecimalDigits == <<"0", "1", "2", "3", "4", "5", "6", "7", "8", "9">>
LowerCase == <<"a", "b", "c", "d", "e", "f", "g", "h", "i", "j", "k", "l", "m",
               "n", "o", "p", "q", "r", "s", "t", "u", "v", "w", "x", "y", "z">>

\* chr(c) for the code points of a..z (ord('a') = 97)
Chr(c) == LowerCase[c - 96]

\* str(n) for an integer n >= 0, as text
RECURSIVE Str(_)
Str(n) == IF n < 10 THEN <<DecimalDigits[n + 1]>>
          ELSE Str(n \div 10) \o <<DecimalDigits[(n % 10) + 1]>>

IsDigit(c) == \E k \in 1..10 : DecimalDigits[k] = c
IsLower(c) == \E k \in 1..26 : LowerCase[k] = c
DigitValue(c) == CHOOSE k \in 0..9 : DecimalDigits[k + 1] = c

\* sep.join(parts) for a sequence of texts
RECURSIVE Join(_, _)
Join(sep, parts) ==
    IF parts = <<>> THEN <<>>
    ELSE IF Len(parts) = 1 THEN parts[1]
    ELSE parts[1] \o sep \o Join(sep, Tail(parts))

\* "".join(parts)
Concat(parts) == Join(<<>>, parts)

----------------------------------------------------------------------------
(* generate_base36 *)

Base == 36

\* digit(digit)
digit(d) == IF d < 10 THEN Str(d)[1] ELSE Chr(d + 87)

WholesBroken(i) == (Base - 1) * i
\* wholes = 36 * i
Wholes(i) == Base * i

None == <<>>

GenInit ==
    /\ gen_pc = "loop"
    /\ gen_i = 0
    /\ gen_j = 0
    /\ encoder = [n \in 0..(Base * Base - 1) |-> None]
    /\ decoder = <<>>

\* one pass of the inner loop body, for (i, first), (j, second)
GenerateStep ==
    /\ gen_pc = "loop"
    /\ LET first == digit(gen_i)
           second == digit(gen_j)
           b36 == <<first, second>>
           n == Wholes(gen_i) + gen_j
       IN /\ encoder' = [encoder EXCEPT ![n] = b36]
          /\ decoder' = [s \in DOMAIN decoder \cup {b36} |->
                            IF s = b36 THEN n ELSE decoder[s]]
    /\ IF gen_j < Base - 1
       THEN /\ gen_j' = gen_j + 1
            /\ UNCHANGED <<gen_i, gen_pc>>
       ELSE IF gen_i < Base - 1
       THEN /\ gen_i' = gen_i + 1
            /\ gen_j' = 0
            /\ UNCHANGED gen_pc
       ELSE /\ gen_pc' = "done"
            /\ UNCHANGED <<gen_i, gen_j>>
    /\ UNCHANGED <<bridgeVars, optVars>>

\* The tables as the module-level ENCODER, DECODER hold them after line 44.
ENCODER == [n \in 0..(Base * Base - 1) |-> <<digit(n \div Base), digit(n % Base)>>]
DECODER == [s \in {ENCODER[n] : n \in 0..(Base * Base - 1)} |->
               CHOOSE n \in 0..(Base * Base - 1) : ENCODER[n] = s]


----------------------------------------------------------------------------
(* Python numbers: a float or an int, integral values only *)

PyFloat(n) == [v |-> n, int |-> FALSE]
PyInt(n) == [v |-> n, int |-> TRUE]
\* a + b, a * b: an int only when both operands are ints
FAdd(a, b) == [v |-> a.v + b.v, int |-> a.int /\ b.int]
FMul(a, b) == [v |-> a.v * b.v, int |-> a.int /\ b.int]
\* round(x): always an int
Round(a) == PyInt(a.v)

----------------------------------------------------------------------------
(* Regular expressions *)

\* the last index of the run of digits that starts at i (i - 1 when none)
RECURSIVE DigitsEnd(_, _)
DigitsEnd(s, i) ==
    IF i <= Len(s) /\ IsDigit(s[i]) THEN DigitsEnd(s, i + 1) ELSE i - 1

\* FLOAT_P = [-+]?\d+\.?\d*(?:e[-+]?\d+)? matched at i: the index of the last
\* character matched, 0 when there is no match.  ci: re.I is set.
FloatEnd(s, i, ci) ==
    LET a == IF i <= Len(s) /\ s[i] \in {"-", "+"} THEN i + 1 ELSE i
        b == DigitsEnd(s, a)
        c == IF b + 1 <= Len(s) /\ s[b + 1] = "." THEN b + 1 ELSE b
        e == DigitsEnd(s, c + 1)
        isE == e + 1 <= Len(s) /\ (s[e + 1] = "e" \/ (ci /\ s[e + 1] = "E"))
        f == IF e + 2 <= Len(s) /\ s[e + 2] \in {"-", "+"} THEN e + 3 ELSE e + 2
        g == DigitsEnd(s, f)
    IN IF b < a THEN 0
       ELSE IF isE /\ g >= f THEN g
       ELSE e

\* FLOAT_P.findall(s), from index i on
RECURSIVE FloatFindall(_, _)
FloatFindall(s, i) ==
    IF i > Len(s) THEN <<>>
    ELSE LET j == FloatEnd(s, i, FALSE)
         IN IF j = 0 THEN FloatFindall(s, i + 1)
            ELSE <<SubSeq(s, i, j)>> \o FloatFindall(s, j + 1)

\* float(text) for the text of a decimal integer with an optional sign;
\* a text with a fraction or an exponent is outside the model
RECURSIVE ParseDigits(_, _)
ParseDigits(s, acc) ==
    IF s = <<>> THEN acc
    ELSE ParseDigits(Tail(s), 10 * acc + DigitValue(Head(s)))

ParseFloat(s) ==
    IF Head(s) = "-" THEN PyFloat(0 - ParseDigits(Tail(s), 0))
    ELSE IF Head(s) = "+" THEN PyFloat(ParseDigits(Tail(s), 0))
    ELSE PyFloat(ParseDigits(s, 0))

\* [a-z\d]
InTokenClass(c) == IsLower(c) \/ IsDigit(c)

TokenLen == 4

BrokenSplitterFindall(s) ==
    LET RECURSIVE scan(_)
        scan(i) ==
            IF i > Len(s) THEN <<>>
            ELSE IF i + 2 <= Len(s) /\ \A k \in i..(i + 2) : InTokenClass(s[k])
                 THEN <<SubSeq(s, i, i + 2)>> \o scan(i + 3)
                 ELSE scan(i + 1)
    IN scan(1)

\* SPLITTER_P.findall(s): the non-overlapping runs of four [a-z\d], left to right
SplitterFindall(s) ==
    LET RECURSIVE scan(_)
        scan(i) ==
            IF i > Len(s) THEN <<>>
            ELSE IF i + TokenLen - 1 <= Len(s)
                    /\ \A k \in i..(i + TokenLen - 1) : InTokenClass(s[k])
                 THEN <<SubSeq(s, i, i + TokenLen - 1)>> \o scan(i + TokenLen)
                 ELSE scan(i + 1)
    IN scan(1)

\* s.split(): the maximal runs of non-blank characters
Split(s) ==
    LET RECURSIVE scan(_, _)
        scan(i, word) ==
            IF i > Len(s) THEN (IF word = <<>> THEN <<>> ELSE <<word>>)
            ELSE IF s[i] = " "
                 THEN (IF word = <<>> THEN <<>> ELSE <<word>>) \o scan(i + 1, <<>>)
                 ELSE scan(i + 1, Append(word, s[i]))
    IN scan(1, <<>>)

\* s[a:b] of Python, for 0 <= a <= b
Slice(s, a, b) == SubSeq(s, a + 1, IF b < Len(s) THEN b ELSE Len(s))

----------------------------------------------------------------------------
(* data_to_svg *)

\* an element of the parsed markup; ns = "" when its tag carries no namespace
Element(ns, tag, attrib) == [ns |-> ns, tag |-> tag, attrib |-> attrib]
\* a markup text: the empty text, or one root element with its children
Document(children) == [empty |-> FALSE, children |-> children]
EmptyText == [empty |-> TRUE, children |-> <<>>]

\* the attributes of the path element data_to_svg writes
PathAttrib(d) ==
    ("fill" :> <<"n", "o", "n", "e">>) @@ ("stroke" :> <<"#", "0", "0", "0", "0", "0", "0">>)
    @@ ("stroke-width" :> <<"3">>)
    @@ ("stroke-linejoin" :> <<"r", "o", "u", "n", "d">>) @@ ("d" :> d)

\* pairs[i] = f"{DECODER[pos[0:2]]} {DECODER[pos[2:4]]}"; a sequence of
\* [err, text], err = "KeyError" when a lookup fails
DecodePairs(pairs) ==
    [i \in 1..Len(pairs) |->
        LET a == Slice(pairs[i], 0, 2)
            b == Slice(pairs[i], 2, 4)
        IN IF a \in DOMAIN DECODER /\ b \in DOMAIN DECODER
           THEN [err |-> "", text |-> Str(DECODER[a]) \o <<" ">> \o Str(DECODER[b])]
           ELSE [err |-> "KeyError", text |-> <<>>]]

\* data_to_svg(data): [err, svg]
DataToSvg(d) ==
    LET strokes == Split(d)
        dec == [k \in 1..Len(strokes) |-> DecodePairs(SplitterFindall(strokes[k]))]
        bad == \E k \in 1..Len(strokes) : \E i \in 1..Len(dec[k]) : dec[k][i].err # ""
        path(k) == Element("", "path",
                     PathAttrib(<<"M">> \o Join(<<"L">>, [i \in 1..Len(dec[k]) |-> dec[k][i].text])))
    IN IF bad THEN [err |-> "KeyError", svg |-> EmptyText]
       ELSE [err |-> "", svg |-> Document([k \in 1..Len(strokes) |-> path(k)])]

----------------------------------------------------------------------------
(* compile_path *)

UpperCase == <<"A", "B", "C", "D", "E", "F", "G", "H", "I", "J", "K", "L", "M",
               "N", "O", "P", "Q", "R", "S", "T", "U", "V", "W", "X", "Y", "Z">>

\* c.upper() and c.islower() for a text of at most one character
Upper(c) == IF IsLower(c) THEN UpperCase[CHOOSE k \in 1..26 : LowerCase[k] = c] ELSE c
IsLowerCommand(c) == IsLower(c)

COMMAND_ARGC == [C |-> 6, M |-> 2, L |-> 2, V |-> 1, H |-> 1, Z |-> 0]

\* COMMAND_ARGV_P.findall(d): one pair <<command letter, number text>> per
\* match, the group that did not take part being empty.  The letters match in
\* either case (re.I); the letter alternative is tried first.
CommandArgvFindall(d) ==
    LET RECURSIVE scan(_)
        scan(i) ==
            IF i > Len(d) THEN <<>>
            ELSE IF Upper(d[i]) \in DOMAIN COMMAND_ARGC
                 THEN <<(<<d[i], <<>> >>)>> \o scan(i + 1)
                 ELSE LET j == FloatEnd(d, i, TRUE)
                      IN IF j = 0 THEN scan(i + 1)
                         ELSE <<(<<"", SubSeq(d, i, j)>>)>> \o scan(j + 1)
    IN scan(1)

\* The locals of compile_path before its loop.  heap holds the two-element
\* lists; pen, and each entry of subline and of line's sublines, names one.
CpStart(d) ==
    [matches |-> CommandArgvFindall(d),
     heap |-> <<(<<PyInt(0), PyInt(0)>>)>>,
     pen |-> 1,
     line |-> <<>>,
     subline |-> <<>>,
     command |-> "",
     previous_command |-> "",
     args |-> <<>>,
     err |-> ""]

CpIdle == CpStart(<<>>)

CpRaise(c, e) == [c EXCEPT !.err = e]

\* pen[1] = args[1] with args of one element: the index is out of range
VerticalToArg(args) == IF Len(args) >= 2 THEN <<"", args[2]>> ELSE <<"IndexError", PyInt(0)>>

\* lines 165-207: the command has its arguments and is executed
CpExecute(c, command, args0) ==
    LET penxy == c.heap[c.pen]
        \* args[i] += pen[i % 2]
        args == IF IsLowerCommand(command)
                THEN [i \in 1..Len(args0) |-> FAdd(args0[i], penxy[((i - 1) % 2) + 1])]
                ELSE args0
        cmd == Upper(command)
        \* if previous_command == "M" and command != "M": subline.append(pen)
        subline == IF c.previous_command = "M" /\ cmd # "M"
                   THEN Append(c.subline, c.pen) ELSE c.subline
        fresh == Len(c.heap) + 1
        reset(r) == [r EXCEPT !.previous_command = cmd, !.command = "", !.args = <<>>,
                              !.matches = Tail(c.matches)]
    IN CASE cmd = "M" ->
              reset([c EXCEPT !.line = IF Len(subline) # 0 THEN Append(c.line, subline)
                                       ELSE c.line,
                              !.subline = <<>>,
                              !.heap = Append(c.heap, args),
                              !.pen = fresh])
         [] cmd = "L" ->
              reset([c EXCEPT !.heap = Append(c.heap, args),
                              !.pen = fresh,
                              !.subline = Append(subline, fresh)])
         [] cmd = "H" ->
              reset([c EXCEPT !.heap = [c.heap EXCEPT ![c.pen] = <<args[1], penxy[2]>>],
                              !.subline = Append(subline, c.pen)])
         [] cmd = "V" ->
              LET a == VerticalToArg(args)
              IN IF a[1] # "" THEN CpRaise(c, a[1])
                 ELSE reset([c EXCEPT !.heap = [c.heap EXCEPT ![c.pen] = <<penxy[1], a[2]>>],
                                      !.subline = Append(subline, c.pen)])
         [] cmd = "Z" ->
              IF subline = <<>> THEN CpRaise(c, "IndexError")
              ELSE reset([c EXCEPT !.subline = Append(subline, subline[1])])
         [] OTHER -> CpRaise(c, "CubicTo is not modelled")

\* lines 159-164: what a match does to command and args
CpAfterMatch(c) ==
    LET match == Head(c.matches)
    IN IF c.command = ""
       THEN [command |-> match[1], args |-> c.args, err |-> ""]
       ELSE IF match[2] = <<>>
            THEN [command |-> c.command, args |-> c.args, err |-> "ValueError"]
            ELSE [command |-> c.command, args |-> Append(c.args, ParseFloat(match[2])),
                  err |-> ""]

\* one pass of the loop of line 158
CpStep(c) ==
    LET m == CpAfterMatch(c)
    IN IF m.err # "" THEN CpRaise(c, m.err)
       ELSE IF Upper(m.command) \notin DOMAIN COMMAND_ARGC THEN CpRaise(c, "KeyError")
       ELSE IF COMMAND_ARGC[Upper(m.command)] = Len(m.args) /\ m.command # ""
            THEN CpExecute(c, m.command, m.args)
            ELSE [c EXCEPT !.command = m.command, !.args = m.args,
                           !.matches = Tail(c.matches)]

\* lines 209-211, with each named list replaced by its value
CpReturn(c) ==
    LET line == IF Len(c.subline) >= 2 THEN Append(c.line, c.subline) ELSE c.line
    IN [k \in 1..Len(line) |-> [j \in 1..Len(line[k]) |-> c.heap[line[k][j]]]]

\* compile_path(attributes) as a function: [err, line]
RECURSIVE CpRun(_)
CpRun(c) ==
    IF c.err # "" THEN [err |-> c.err, line |-> <<>>]
    ELSE IF c.matches = <<>> THEN [err |-> "", line |-> CpReturn(c)]
    ELSE CpRun(CpStep(c))

----------------------------------------------------------------------------
(* compile_rect *)

\* compile_rect(attributes): the corners, 0 being an int and the sizes floats
CompileRect(attrib) ==
    LET width == ParseFloat(attrib["width"])
        height == ParseFloat(attrib["height"])
    IN << << <<PyInt(0), PyInt(0)>>, <<width, PyInt(0)>>, <<width, height>>,
             <<PyInt(0), height>>, <<PyInt(0), PyInt(0)>> >> >>

----------------------------------------------------------------------------
(* svg_to_data *)

MERGE_DISTANCE == 1
CanvasWidth == 800
CanvasHeight == 600

Abs(n) == IF n < 0 THEN 0 - n ELSE n

\* NAMESPACE_P.match(obj.tag): the tag after "{namespace}", or no match
NamespaceMatch(obj) == IF obj.ns # "" THEN [matched |-> TRUE, tag |-> obj.tag]
                       ELSE [matched |-> FALSE, tag |-> ""]

\* the keys of compile_map
CompileMapTags == {"path", "rect", "circle", "ellipse"}

\* lines 267-301: translate or apply the matrix and round; round only when the
\* element has no transform; leave the points as they are for any other count
ApplyTransform(attrib, nl) ==
    LET MapPoints(f(_)) == [k \in 1..Len(nl) |-> [j \in 1..Len(nl[k]) |-> f(nl[k][j])]]
    IN
    IF "transform" \in DOMAIN attrib
    THEN LET texts == FloatFindall(attrib["transform"], 1)
             numbers == [k \in 1..Len(texts) |-> ParseFloat(texts[k])]
             translate(p) == <<Round(FAdd(p[1], numbers[1])), Round(FAdd(p[2], numbers[2]))>>
             matrix(p) ==
                 <<Round(FAdd(FAdd(FMul(numbers[1], p[1]), FMul(numbers[3], p[2])), numbers[5])),
                   Round(FAdd(FAdd(FMul(numbers[2], p[1]), FMul(numbers[4], p[2])), numbers[6]))>>
         IN IF Len(numbers) = 2 THEN MapPoints(translate)
            ELSE IF Len(numbers) = 6 THEN MapPoints(matrix)
            ELSE nl
    ELSE LET rounded(p) == <<Round(p[1]), Round(p[2])>>
         IN MapPoints(rounded)

\* whether the name i of svg_to_data is bound after lines 267-301
BindsI(attrib, nl) ==
    /\ Len(nl) > 0
    /\ "transform" \in DOMAIN attrib =>
          Len(FloatFindall(attrib["transform"], 1)) \in {2, 6}

OutOfBoundsNoYMax(point) ==
    point[1].v > CanvasWidth \/ point[1].v < 0 \/ point[2].v < 0

\* line 322
OutOfBounds(point) ==
    point[1].v > CanvasWidth \/ point[1].v < 0 \/ point[2].v > CanvasHeight \/ point[2].v < 0

\* lines 332-333
FarEnough(previous, point) ==
    \/ Abs(previous[1].v - point[1].v) >= MERGE_DISTANCE
    \/ Abs(previous[2].v - point[2].v) >= MERGE_DISTANCE

\* ENCODER[point[0]], ENCODER[point[1]]
EncodePoint(point) == <<ENCODER[point[1].v], ENCODER[point[2].v]>>

\* lines 319-339 for one point: what it does to flattened_line and
\* previous_point, whether it leaves the loop, and what it raises
FilterPoint(flat, previous, point, i_bound) ==
    IF ~point[1].int
    THEN [flat |-> flat, previous |-> previous, brk |-> TRUE, err |-> ""]
    ELSE IF OutOfBounds(point)
    THEN [flat |-> flat, previous |-> previous, brk |-> FALSE,
          err |-> IF i_bound THEN "" ELSE "UnboundLocalError"]
    ELSE IF ~point[2].int
    THEN [flat |-> flat, previous |-> previous, brk |-> FALSE, err |-> "TypeError"]
    ELSE IF previous = <<>>
    THEN [flat |-> flat \o EncodePoint(point), previous |-> point, brk |-> FALSE, err |-> ""]
    ELSE IF FarEnough(previous, point)
    THEN [flat |-> flat \o EncodePoint(point), previous |-> point, brk |-> FALSE, err |-> ""]
    ELSE [flat |-> flat, previous |-> point, brk |-> FALSE, err |-> ""]

NoCur == [li |-> 0, pi |-> 0, i_bound |-> FALSE]

Raise(e) ==
    /\ pc' = "error"
    /\ err' = e

\* data_to_layer's call data_to_svg(data), whose markup is then exported
DataToSvgCall ==
    /\ pc = "import"
    /\ LET r == DataToSvg(data)
       IN IF r.err # ""
          THEN Raise(r.err) /\ UNCHANGED svg
          ELSE /\ svg' = r.svg
               /\ pc' = "begin"
               /\ UNCHANGED err
    /\ UNCHANGED <<origin, data, result, objs, cp, new_lines, lines, cur,
                   flattened_line, previous_point, codecVars, optVars>>

\* lines 246-251
SvgToDataBegin ==
    /\ pc = "begin"
    /\ IF svg.empty
       THEN /\ result' = <<>>
            /\ pc' = "done"
            /\ UNCHANGED <<objs, lines>>
       ELSE /\ objs' = svg.children
            /\ lines' = <<>>
            /\ pc' = "obj"
            /\ UNCHANGED result
    /\ UNCHANGED <<origin, data, svg, err, cp, new_lines, cur, flattened_line,
                   previous_point, codecVars, optVars>>

\* lines 260-265: the next child of the root
NextObj ==
    /\ pc = "obj"
    /\ objs # <<>>
    /\ LET obj == Head(objs)
           m == NamespaceMatch(obj)
       IN IF ~m.matched
          THEN Raise("AttributeError") /\ UNCHANGED <<objs, cp, new_lines>>
          ELSE IF m.tag = "path"
          THEN /\ cp' = CpStart(obj.attrib["d"])
               /\ pc' = "compile"
               /\ UNCHANGED <<err, objs, new_lines>>
          ELSE IF m.tag = "rect"
          THEN /\ new_lines' = CompileRect(obj.attrib)
               /\ pc' = "transform"
               /\ UNCHANGED <<err, objs, cp>>
          ELSE /\ m.tag \notin CompileMapTags
               /\ objs' = Tail(objs)
               /\ UNCHANGED <<pc, err, cp, new_lines>>
    /\ UNCHANGED <<origin, data, svg, result, lines, cur, flattened_line,
                   previous_point, codecVars, optVars>>

\* one pass of the loop of compile_path
CompileMatch ==
    /\ pc = "compile"
    /\ cp.matches # <<>>
    /\ cp' = CpStep(cp)
    /\ IF cp'.err # "" THEN Raise(cp'.err) ELSE UNCHANGED <<pc, err>>
    /\ UNCHANGED <<origin, data, svg, result, objs, new_lines, lines, cur,
                   flattened_line, previous_point, codecVars, optVars>>

\* compile_path returns
CompileReturn ==
    /\ pc = "compile"
    /\ cp.matches = <<>>
    /\ new_lines' = CpReturn(cp)
    /\ pc' = "transform"
    /\ UNCHANGED <<origin, data, svg, err, result, objs, cp, lines, cur,
                   flattened_line, previous_point, codecVars, optVars>>

\* lines 267-301, and the start of the loop of line 304
Transform ==
    /\ pc = "transform"
    /\ new_lines' = ApplyTransform(Head(objs).attrib, new_lines)
    /\ cur' = [li |-> 1, pi |-> 1,
               i_bound |-> cur.i_bound \/ BindsI(Head(objs).attrib, new_lines)]
    /\ flattened_line' = <<>>
    /\ previous_point' = <<>>
    /\ pc' = "filter"
    /\ UNCHANGED <<origin, data, svg, err, result, objs, cp, lines, codecVars, optVars>>

\* lines 307-339: one point of the current line
FilterNextPoint ==
    /\ pc = "filter"
    /\ cur.li <= Len(new_lines)
    /\ cur.pi <= Len(new_lines[cur.li])
    /\ LET line == new_lines[cur.li]
           r == FilterPoint(flattened_line, previous_point, line[cur.pi], cur.i_bound)
       IN IF r.err # ""
          THEN Raise(r.err) /\ UNCHANGED <<cur, flattened_line, previous_point>>
          ELSE /\ flattened_line' = r.flat
               /\ previous_point' = r.previous
               /\ cur' = [cur EXCEPT !.pi = IF r.brk THEN Len(line) + 1 ELSE cur.pi + 1]
               /\ UNCHANGED <<pc, err>>
    /\ UNCHANGED <<origin, data, svg, result, objs, cp, new_lines, lines,
                   codecVars, optVars>>

\* line 340, and lines 305-306 for the next line
FilterLineEnd ==
    /\ pc = "filter"
    /\ cur.li <= Len(new_lines)
    /\ cur.pi > Len(new_lines[cur.li])
    /\ lines' = Append(lines, Concat(flattened_line))
    /\ cur' = [cur EXCEPT !.li = cur.li + 1, !.pi = 1]
    /\ flattened_line' = <<>>
    /\ previous_point' = <<>>
    /\ UNCHANGED <<pc, origin, data, svg, err, result, objs, cp, new_lines,
                   codecVars, optVars>>

\* the loop of line 304 ends: on to the next child
ObjDone ==
    /\ pc = "filter"
    /\ cur.li > Len(new_lines)
    /\ objs' = Tail(objs)
    /\ pc' = "obj"
    /\ UNCHANGED <<origin, data, svg, err, result, cp, new_lines, lines, cur,
                   flattened_line, previous_point, codecVars, optVars>>

\* line 341
SvgToDataReturn ==
    /\ pc = "obj"
    /\ objs = <<>>
    /\ result' = Join(<<" ">>, lines)
    /\ pc' = "done"
    /\ UNCHANGED <<origin, data, svg, err, objs, cp, new_lines, lines, cur,
                   flattened_line, previous_point, codecVars, optVars>>

----------------------------------------------------------------------------
(* optimize *)

\* (DECODER[s[0:2]], DECODER[s[2:4]])
DecodePoint(s) == <<DECODER[Slice(s, 0, 2)], DECODER[Slice(s, 2, 4)]>>

\* val > 230 of lines 386-395 is computed on floats (atan2, a square root, dist)
\* and is left open here, except where it is certainly false: val is 0, or
\* within rounding of 0, when the two segments point the same way or have no
\* length, and val <= degrees(sqrt(2 * pi)) * ddist < 144 when ddist <= 1.
ThresholdOutcomes(p0, p1, p2) ==
    LET ax == p1[1] - p0[1]
        ay == p0[2] - p1[2]
        bx == p2[1] - p1[1]
        by == p1[2] - p2[2]
        flat(x, y) == y = 0 /\ x >= 0
    IN IF \/ (ax * by - ay * bx = 0 /\ ax * bx + ay * by > 0)
          \/ (ax = 0 /\ ay = 0 /\ flat(bx, by))
          \/ (bx = 0 /\ by = 0 /\ flat(ax, ay))
          \/ ax * ax + ay * ay + bx * bx + by * by <= 1
       THEN {FALSE}
       ELSE BOOLEAN

FirstWindowEndBroken(s) == s + 1
\* end = start + 2
WindowEnd(s) == s + 2

PreAddNothing(pts) == <<>>
\* new_line = points[0]
PreAdd(pts) == pts[1]

\* for base36_line in data.split()
OptBegin ==
    /\ opt_pc = "begin"
    /\ todo' = Split(opt_data)
    /\ new_data' = <<>>
    /\ opt_pc' = "line"
    /\ UNCHANGED <<opt_data, points, start, end, new_line, opt_result, tests, opt_err,
                   codecVars, bridgeVars>>

\* lines 367-374: the next Stroke
OptNextLine ==
    /\ opt_pc = "line"
    /\ todo # <<>>
    /\ LET base36_line == Head(todo)
           pts == SplitterFindall(base36_line)
       IN /\ points' = pts
          /\ tests' = <<>>
          /\ IF Len(pts) = 2
             THEN /\ new_data' = Append(new_data, base36_line)
                  /\ todo' = Tail(todo)
                  /\ UNCHANGED <<opt_pc, start, end, new_line, opt_err>>
             ELSE IF Len(pts) = 0
             THEN /\ opt_pc' = "error"
                  /\ opt_err' = "IndexError"
                  /\ UNCHANGED <<new_data, todo, start, end, new_line>>
             ELSE /\ start' = 0
                  /\ end' = WindowEnd(0)
                  /\ new_line' = PreAdd(pts)
                  /\ opt_pc' = "outer"
                  /\ UNCHANGED <<new_data, todo, opt_err>>
    /\ UNCHANGED <<opt_data, opt_result, codecVars, bridgeVars>>

\* line 375 holds: lines 376-377
OptOuterEnter ==
    /\ opt_pc = "outer"
    /\ start + 1 < Len(points)
    /\ opt_pc' = "inner"
    /\ UNCHANGED <<opt_data, todo, points, start, end, new_line, new_data, opt_result,
                   tests, opt_err, codecVars, bridgeVars>>

\* line 379 holds: one threshold test, lines 380-398, and lines 399-400 after
\* the break
OptTest ==
    /\ opt_pc = "inner"
    /\ end < Len(points)
    /\ tests' = Append(tests, [start |-> start, end |-> end])
    /\ LET point_0 == DecodePoint(points[start + 1])
           point_1_str == points[end]
           point_1 == DecodePoint(point_1_str)
           point_2 == DecodePoint(points[end + 1])
       IN \E over \in ThresholdOutcomes(point_0, point_1, point_2) :
             IF over
             THEN /\ new_line' = new_line \o point_1_str
                  /\ start' = end - 1
                  /\ end' = WindowEnd(end - 1)
                  /\ opt_pc' = "outer"
             ELSE /\ end' = end + 1
                  /\ UNCHANGED <<new_line, start, opt_pc>>
    /\ UNCHANGED <<opt_data, todo, points, new_data, opt_result, opt_err,
                   codecVars, bridgeVars>>

\* line 379 fails: lines 399-400
OptInnerExit ==
    /\ opt_pc = "inner"
    /\ end >= Len(points)
    /\ start' = end - 1
    /\ end' = WindowEnd(end - 1)
    /\ opt_pc' = "outer"
    /\ UNCHANGED <<opt_data, todo, points, new_line, new_data, opt_result, tests,
                   opt_err, codecVars, bridgeVars>>

\* line 375 fails: lines 401-402
OptPostAdd ==
    /\ opt_pc = "outer"
    /\ start + 1 >= Len(points)
    /\ new_data' = Append(new_data, new_line \o points[Len(points)])
    /\ todo' = Tail(todo)
    /\ opt_pc' = "line"
    /\ UNCHANGED <<opt_data, points, start, end, new_line, opt_result, tests, opt_err,
                   codecVars, bridgeVars>>

\* line 403
OptReturn ==
    /\ opt_pc = "line"
    /\ todo = <<>>
    /\ opt_result' = Join(<<" ">>, new_data)
    /\ opt_pc' = "done"
    /\ UNCHANGED <<opt_data, todo, points, start, end, new_line, new_data, tests,
                   opt_err, codecVars, bridgeVars>>

----------------------------------------------------------------------------
(* The inputs *)

MaxPayloadLen == 8
MaxCmds == 3

\* sketch data over a part of [a-z0-9 ]: "m0" is 792, "mm" is 814, off the canvas
PayloadAlphabet == {"0", "m", " "}
Payloads == UNION {[1..k -> PayloadAlphabet] : k \in 0..MaxPayloadLen}

\* the pieces a path's d attribute is put together from
Segments == {
    <<"M", "1", " ", "1">>,
    <<"L", "5", " ", "5">>,
    <<"L", "6", " ", "5">>,
    <<"L", "-", "1", " ", "5">>,
    <<"L", "5", " ", "6", "0", "1">>,
    <<"H", "7">>,
    <<"V", "5">>,
    <<"Z">>,
    <<"l", "1", " ", "1">>,
    <<"h", "1">>,
    <<" ", "2", " ", "2">> }
PathTexts == {Concat(p) : p \in UNION {[1..k -> Segments] : k \in 0..MaxCmds}}

SvgNs == "http://www.w3.org/2000/svg"
Translate == <<"t", "r", "a", "n", "s", "l", "a", "t", "e", "(", "1", ",", "2", ")">>
Matrix == <<"m", "a", "t", "r", "i", "x", "(", "1", " ", "0", " ", "0", " ", "1", " ", "2", " ", "3", ")">>
Rotate == <<"r", "o", "t", "a", "t", "e", "(", "3", ")">>
Transforms == {Translate, Matrix, Rotate}
TransformedPathTexts == {<<"M", "1", " ", "1", "L", "5", " ", "5">>,
                         <<"L", "-", "1", " ", "5", "L", "5", " ", "5", "L", "5", " ", "6", "0", "1">>,
                         <<"h", "1", "L", "5", " ", "5">>}
PathElement(d) == Element(SvgNs, "path", "d" :> d)
TransformedPath(d, t) == Element(SvgNs, "path", ("d" :> d) @@ ("transform" :> t))
Rect == Element(SvgNs, "rect", ("width" :> <<"1", "0">>) @@ ("height" :> <<"2", "0">>))
TransformedRect(t) ==
    Element(SvgNs, "rect", ("width" :> <<"1", "0">>) @@ ("height" :> <<"9", "0", "0">>)
                           @@ ("transform" :> t))
Group == Element(SvgNs, "g", <<>>)
TwoPoints == <<"M", "1", " ", "1", "L", "5", " ", "5">>
OffCanvas == <<"M", "9", "0", "0", " ", "1", "L", "9", "0", "1", " ", "1">>

\* what layer.toSvg() may hand to svg_to_data
LayerDocuments ==
    {EmptyText, Document(<<>>), Document(<<Rect>>), Document(<<Group, PathElement(TwoPoints)>>),
     Document(<<PathElement(OffCanvas), PathElement(TwoPoints)>>),
     Document(<<Rect, PathElement(TwoPoints)>>)}
    \cup {Document(<<PathElement(d)>>) : d \in PathTexts}
    \cup {Document(<<TransformedPath(d, t)>>) : d \in TransformedPathTexts, t \in Transforms}
    \cup {Document(<<TransformedRect(t)>>) : t \in Transforms}

BridgeIdle ==
    /\ pc = "idle" /\ origin = "none" /\ data = <<>> /\ svg = EmptyText /\ err = ""
    /\ result = <<>> /\ objs = <<>> /\ cp = CpIdle /\ new_lines = <<>> /\ lines = <<>>
    /\ cur = NoCur /\ flattened_line = <<>> /\ previous_point = <<>>

\* the tables are built at import time; ENCODER and DECODER stand for them
CodecIdle ==
    /\ gen_pc = "imported" /\ gen_i = 0 /\ gen_j = 0 /\ encoder = <<>> /\ decoder = <<>>

OptIdle ==
    /\ opt_pc = "idle" /\ opt_data = <<>> /\ todo = <<>> /\ points = <<>> /\ start = 0
    /\ end = 0 /\ new_line = <<>> /\ new_data = <<>> /\ opt_result = <<>> /\ tests = <<>>
    /\ opt_err = ""

BridgeInit ==
    /\ \/ /\ origin = "data_to_svg"
          /\ data \in Payloads
          /\ svg = EmptyText
          /\ pc = "import"
       \/ /\ origin = "toSvg"
          /\ data = <<>>
          /\ svg \in LayerDocuments
          /\ pc = "begin"
    /\ err = "" /\ result = <<>> /\ objs = <<>> /\ cp = CpIdle /\ new_lines = <<>>
    /\ lines = <<>> /\ cur = NoCur /\ flattened_line = <<>> /\ previous_point = <<>>
    /\ CodecIdle
    /\ OptIdle

BridgeNext ==
    \/ DataToSvgCall
    \/ SvgToDataBegin
    \/ NextObj
    \/ CompileMatch
    \/ CompileReturn
    \/ Transform
    \/ FilterNextPoint
    \/ FilterLineEnd
    \/ ObjDone
    \/ SvgToDataReturn

SpecBridge == BridgeInit /\ [][BridgeNext]_vars

CodecInit == GenInit /\ BridgeIdle /\ OptIdle
CodecNext == GenerateStep
SpecCodec == CodecInit /\ [][CodecNext]_vars

MaxPoints == 4

\* the points Strokes are drawn from: three in a row, and one far off
PointPool == {<<0, 0>>, <<1, 0>>, <<2, 0>>, <<40, 30>>}
PointToken(p) == ENCODER[p[1]] \o ENCODER[p[2]]
StrokeText(ps) == Concat([j \in 1..Len(ps) |-> PointToken(ps[j])])
StrokePoints == UNION {[1..k -> PointPool] : k \in 1..MaxPoints}
SecondStrokes == {<< <<1, 0>> >>, << <<0, 0>>, <<40, 30>>, <<2, 0>> >>}

\* what document_to_data() may hand to optimize: Strokes of whole Point Tokens
OptPayloads ==
    {StrokeText(ps) : ps \in StrokePoints}
    \cup {StrokeText(ps) \o <<" ">> \o StrokeText(qs) : ps \in StrokePoints, qs \in SecondStrokes}

OptInit ==
    /\ opt_pc = "begin"
    /\ opt_data \in OptPayloads
    /\ todo = <<>> /\ points = <<>> /\ start = 0 /\ end = 0 /\ new_line = <<>>
    /\ new_data = <<>> /\ opt_result = <<>> /\ tests = <<>> /\ opt_err = ""
    /\ CodecIdle
    /\ BridgeIdle

OptNext ==
    \/ OptBegin
    \/ OptNextLine
    \/ OptOuterEnter
    \/ OptTest
    \/ OptInnerExit
    \/ OptPostAdd
    \/ OptReturn

SpecOptimize == OptInit /\ [][OptNext]_vars

\* optimize runs to its end: no step of it waits on anything
FairSpecOptimize == OptInit /\ [][OptNext]_vars /\ WF_vars(OptNext)

----------------------------------------------------------------------------
(* The codec *)

\* the base-36 symbols, digits then letters
Alphabet36 == <<"0", "1", "2", "3", "4", "5", "6", "7", "8", "9",
                "a", "b", "c", "d", "e", "f", "g", "h", "i", "j", "k", "l", "m",
                "n", "o", "p", "q", "r", "s", "t", "u", "v", "w", "x", "y", "z">>
\* the two-symbol representation of n, most-significant symbol first
Base36(n) == <<Alphabet36[(n \div 36) + 1], Alphabet36[(n % 36) + 1]>>
Base36Strings == {<<Alphabet36[a], Alphabet36[b]>> : a, b \in 1..36}

\* C1: once generate_base36 has run, the two tables are total mutually inverse
\* bijections between 0..1295 and the 1296 two-symbol base-36 strings, each
\* number being encoded by its representation, most-significant symbol first.
C1_TablesInverse ==
    gen_pc = "done" =>
        /\ DOMAIN encoder = 0..1295
        /\ DOMAIN decoder = Base36Strings
        /\ \A n \in 0..1295 :
              /\ encoder[n] = Base36(n)
              /\ encoder[n] \in DOMAIN decoder
              /\ decoder[encoder[n]] = n
        /\ \A t \in Base36Strings :
              /\ decoder[t] \in 0..1295
              /\ encoder[decoder[t]] = t

C1_Witness ==
    /\ gen_pc = "done"
    /\ encoder[1295] = <<"z", "z">>
    /\ decoder[<<"0", "a">>] = 10

\* the tables the other operations read are the ones the loop builds
TablesAgree == gen_pc = "done" => encoder = ENCODER /\ decoder = DECODER

----------------------------------------------------------------------------
(* The importer and the exporter *)

\* the number of maximal runs of non-blank characters of a payload
StrokeCount(d) ==
    Cardinality({i \in 1..Len(d) : d[i] # " " /\ (i = 1 \/ d[i - 1] = " ")})

\* C3: on a payload over [a-z0-9 ], data_to_svg raises nothing and returns one
\* root element holding exactly one path element per Stroke of the payload.
C3_DataToSvgTotal ==
    (origin = "data_to_svg" /\ pc # "import") =>
        /\ err # "KeyError"
        /\ ~svg.empty
        /\ Len(svg.children) = StrokeCount(data)
        /\ \A k \in 1..Len(svg.children) :
              /\ svg.children[k].tag = "path"
              /\ Head(svg.children[k].attrib["d"]) = "M"

\* two Strokes, the first with a Point Token and a remainder that is no token
C3_Witness ==
    /\ origin = "data_to_svg"
    /\ pc = "begin"
    /\ Len(svg.children) = 2
    /\ Len(Split(data)[1]) = 5
    /\ svg.children[1].attrib["d"] = <<"M", "7", "9", "2", " ", "2", "2">>

\* C2: exporting the markup that data_to_svg made of a payload gives the
\* payload back.
C2_RoundTrip ==
    (origin = "data_to_svg" /\ pc \in {"done", "error"}) =>
        /\ pc = "done"
        /\ result = data

\* on the canvas
RefOnCanvas(p) == p[1].v >= 0 /\ p[1].v <= 800 /\ p[2].v >= 0 /\ p[2].v <= 600

\* keep a point only if it differs from the last kept one by at least 1 in x or y
RECURSIVE RefMerge(_, _)
RefMerge(rest, kept) ==
    IF rest = <<>> THEN kept
    ELSE LET p == Head(rest)
             last == kept[Len(kept)]
         IN IF kept = <<>> \/ Abs(p[1].v - last[1].v) >= 1 \/ Abs(p[2].v - last[2].v) >= 1
            THEN RefMerge(Tail(rest), Append(kept, p))
            ELSE RefMerge(Tail(rest), kept)

\* drop the points off the canvas, then merge
RefFilter(line) == RefMerge(SelectSeq(line, RefOnCanvas), <<>>)

RefStroke(line) ==
    LET kept == RefFilter(line)
    IN Concat([j \in 1..Len(kept) |-> Base36(kept[j][1].v) \o Base36(kept[j][2].v)])

AllInt(line) == \A j \in 1..Len(line) : line[j][1].int /\ line[j][2].int
Coordinates(line) == [j \in 1..Len(line) |-> <<line[j][1].v, line[j][2].v>>]

\* the Stroke made of the k-th Subline of the element being filtered
StrokeOf(k) == lines[Len(lines) - (cur.li - 1) + k]

\* C5: for a Subline of integer points, the points the filter encodes are those
\* of the reference: the points off the canvas dropped, then each point kept
\* only if it differs by at least 1 in x or y from the last kept one.  The
\* filter itself raises nothing (i of line 323 is bound whenever it is read).
C5_FilterMatchesReference ==
    /\ err \notin {"UnboundLocalError", "TypeError"}
    /\ pc = "filter" =>
        /\ \A k \in 1..(cur.li - 1) :
              AllInt(new_lines[k]) =>
                 /\ StrokeOf(k) = RefStroke(new_lines[k])
                 /\ Coordinates(new_lines[k]) = << <<-1, 5>>, <<5, 5>>, <<5, 601>> >>
                       => StrokeOf(k) = <<"0", "5", "0", "5">>
                 /\ Coordinates(new_lines[k]) = << <<5, 5>>, <<5, 5>>, <<6, 5>> >>
                       => StrokeOf(k) = <<"0", "5", "0", "5", "0", "6", "0", "5">>
        /\ (cur.li <= Len(new_lines) /\ AllInt(new_lines[cur.li])) =>
              Concat(flattened_line) = RefStroke(SubSeq(new_lines[cur.li], 1, cur.pi - 1))

\* a Subline whose first and last points are off the canvas and whose middle
\* point is kept, and one with a repeated point, have both been filtered
C5_Witness ==
    /\ pc = "filter"
    /\ cur.li = 2
    /\ \/ /\ Coordinates(new_lines[1]) = << <<-1, 5>>, <<5, 5>>, <<5, 601>> >>
          /\ StrokeOf(1) = <<"0", "5", "0", "5">>
       \/ /\ Coordinates(new_lines[1]) = << <<5, 5>>, <<5, 5>>, <<6, 5>> >>
          /\ StrokeOf(1) = <<"0", "5", "0", "5", "0", "6", "0", "5">>

\* C6: every Stroke svg_to_data encodes has at least 2 Point Tokens.
C6_StrokesHaveTwoPoints ==
    \A k \in 1..Len(lines) : Len(lines[k]) >= 2 * 4

\* the matches with the active letter written before each further group
ExplicitMatches(ms) ==
    LET RECURSIVE walk(_, _, _)
        walk(rest, letter, n) ==
            IF rest = <<>> THEN <<>>
            ELSE LET m == Head(rest)
                 IN IF m[1] # "" THEN <<m>> \o walk(Tail(rest), m[1], 0)
                    ELSE IF letter # "" /\ COMMAND_ARGC[Upper(letter)] > 0
                            /\ n = COMMAND_ARGC[Upper(letter)]
                    THEN << <<letter, <<>> >>, m>> \o walk(Tail(rest), letter, 1)
                    ELSE <<m>> \o walk(Tail(rest), letter, n + 1)
    IN walk(ms, "", 0)

CompilingPath ==
    /\ pc \in {"compile", "error"}
    /\ objs # <<>>
    /\ Head(objs).ns # ""
    /\ Head(objs).tag = "path"

\* C7: a letter of arity k > 0 followed by several groups of k numbers stays
\* active: compile_path gives the Sublines of the path with the letter written
\* before each group.
C7_ImplicitRepetition ==
    CompilingPath =>
        LET d == Head(objs).attrib["d"]
            ms == CommandArgvFindall(d)
            explicit == CpRun([CpStart(d) EXCEPT !.matches = ExplicitMatches(ms)])
        IN (ExplicitMatches(ms) # ms /\ explicit.err = "") =>
              /\ cp.err = ""
              /\ cp.matches = <<>> => CpReturn(cp) = explicit.line

\* the next match completes a HorizontalTo or a VerticalTo
HVPending ==
    /\ pc = "compile"
    /\ cp.matches # <<>>
    /\ LET m == CpAfterMatch(cp)
       IN m.err = "" /\ Upper(m.command) \in {"H", "V"} /\ Len(m.args) = 1

PointValues(c, names) == [j \in 1..Len(names) |-> <<c.heap[names[j]][1].v, c.heap[names[j]][2].v>>]

\* C8: HorizontalTo(x) moves the pen from (px, py) to (x, py) and VerticalTo(y)
\* to (px, y), without an error; the Subline is then what it was (with the pen
\* position first, after a MoveTo), followed by the new pen position.
C8_HorizontalVertical ==
    [][HVPending =>
          LET m == CpAfterMatch(cp)
              old == PointValues(cp, <<cp.pen>>)[1]
              arg == m.args[1].v
              new == IF Upper(m.command) = "H"
                     THEN <<IF IsLower(m.command) THEN old[1] + arg ELSE arg, old[2]>>
                     ELSE <<old[1], IF IsLower(m.command) THEN old[2] + arg ELSE arg>>
              before == PointValues(cp, cp.subline)
                           \o (IF cp.previous_command = "M" THEN <<old>> ELSE <<>>)
          IN /\ cp'.err = ""
             /\ PointValues(cp', <<cp'.pen>>)[1] = new
             /\ PointValues(cp', cp'.subline) = Append(before, new)]_vars

----------------------------------------------------------------------------
(* The point reducer *)

\* the Point Tokens of a Stroke
Tokens(s) == [j \in 1..(Len(s) \div 4) |-> SubSeq(s, 4 * j - 3, 4 * j)]
\* the k-th Stroke of the payload, and of what optimize has made so far
StrokeIn(k) == Tokens(Split(opt_data)[k])
StrokeOut(k) == Tokens(new_data[k])

\* C4: a Stroke of exactly 2 Point Tokens comes out unchanged, and every Stroke
\* comes out beginning with its first token and ending with its last one.
C4_EndsKept ==
    /\ \A k \in 1..Len(new_data) :
          /\ Len(new_data[k]) % 4 = 0
          /\ Len(StrokeIn(k)) = 2 => new_data[k] = Split(opt_data)[k]
          /\ Len(StrokeOut(k)) >= 1
          /\ StrokeOut(k)[1] = StrokeIn(k)[1]
          /\ StrokeOut(k)[Len(StrokeOut(k))] = StrokeIn(k)[Len(StrokeIn(k))]
    /\ opt_pc = "done" => Split(opt_result) = new_data

\* a Stroke of 4 points reduced to its two ends, in a payload of two Strokes
C4_Witness ==
    /\ opt_pc = "done"
    /\ Len(new_data) = 2
    /\ Len(StrokeIn(1)) = 4
    /\ Len(StrokeOut(1)) = 2
    /\ StrokeIn(1)[1] # StrokeIn(1)[4]

RECURSIVE IsSubsequence(_, _)
IsSubsequence(a, b) ==
    IF a = <<>> THEN TRUE
    ELSE IF b = <<>> THEN FALSE
    ELSE IF Head(a) = Head(b) THEN IsSubsequence(Tail(a), Tail(b))
    ELSE IsSubsequence(a, Tail(b))

\* C9: every Stroke comes out as tokens of the input taken at strictly
\* increasing indices, so with at most as many tokens; and the payload keeps
\* its number of Strokes.
C9_NeverGrows ==
    /\ \A k \in 1..Len(new_data) :
          /\ IsSubsequence(StrokeOut(k), StrokeIn(k))
          /\ Len(StrokeOut(k)) <= Len(StrokeIn(k))
    /\ opt_pc = "done" => Len(Split(opt_result)) = Len(Split(opt_data))

\* the threshold tests made so far on a Stroke of at least 3 points: end goes
\* strictly up from one test to the next, every index read is one of the
\* Stroke, and there are at most n - 2 tests
ScanForward ==
    Len(points) >= 3 =>
        /\ Len(tests) <= Len(points) - 2
        /\ \A j \in 1..Len(tests) :
              /\ tests[j].start >= 0
              /\ tests[j].start <= tests[j].end - 1
              /\ tests[j].end - 1 >= 0
              /\ tests[j].end <= Len(points) - 1
              /\ j > 1 => tests[j].end > tests[j - 1].end

\* C10: on a Stroke of at least 3 points the scan only goes forward, within the
\* Stroke, in at most n - 2 tests, and optimize comes to its end.
C10_ScanTerminates == []ScanForward /\ <>(opt_pc = "done")

\* a Stroke of 4 points whose first test moved the anchor
C10_Witness ==
    /\ opt_pc = "done"
    /\ Len(points) = 4
    /\ Len(tests) = 2
    /\ tests[1].start = 0
    /\ tests[2].start = 1
    /\ tests[2].end = 3

============================================================================
